---- MODULE Spec2Model ----
(***************************************************************************)
(* The key-value example clients (basic_example.py, encrypted_example.py)  *)
(* talking to the key-value store they are written against.  The clients   *)
(* are translated from the Python source; the store itself (token          *)
(* generator, entry store with TTL expiry, request handlers) is not part   *)
(* of the source and is modelled from the specification, sections 3-7.     *)
(***************************************************************************)
EXTENDS Integers, Sequences, FiniteSets, TLC

(***************************************************************************)
(* Bounds.                                                                 *)
(***************************************************************************)
MaxTime == 1
NumIVs == 1

(* MAX_TTL is 30 days; here one unit of the model's clock. *)
MaxTTL == 1

(***************************************************************************)
(* JSON values.  A JSON object is a function from its keys to values; a    *)
(* string is Str(s), a boolean Bool(b), a base64 string B64(bytes).        *)
(***************************************************************************)
Str(s) == [s |-> s]
Bool(b) == [b |-> b]
B64(x) == [b64 |-> x]

DocA == [user |-> Str("alice")]
DocB == [user |-> Str("alice"), theme |-> Str("dark")]
DocC == [encrypted |-> Bool(FALSE), payload |-> Str("hello")]
DocD == [encrypted |-> Str("yes")]
DocE == [encrypted |-> Bool(TRUE), payload |-> Str("hello")]

(* basic_example.py main: my_data (lines 90-97), and my_data after the     *)
(* update of lines 113-114: a value changed, a key added.                  *)
MyData == DocB
MyDataUpdated ==
  [user |-> Str("alice"), theme |-> Str("light"),
   last_updated |-> Str("2025-10-13")]

(* encrypted_example.py main: sensitive_data (lines 144-155) and the two   *)
(* passwords (lines 131, 185).                                             *)
SensitiveData == [api_key |-> Str("sk_live_1234567890abcdef")]
MainPassword == "my-super-secret-password-123"
WrongPassword == "wrong-password"

(* What callers hand to KeyValueClient.store and to                        *)
(* EncryptedKeyValueClient.store, and what other users of the store put    *)
(* there through the plain client.                                         *)
BasicDocs == {DocA, DocB}
SecretDocs == {DocA, DocB}
ForeignDocs == {DocA, DocC, DocD, DocE}
Passwords == {"pw1", "pw2"}
IVs == 1..NumIVs

Tokens == {"t1", "t2"}
BadToken == "not-a-token"
TokenInputs == Tokens \cup {BadToken}

(* Optional[int]: <<>> is None, <<n>> is n. *)
None == <<>>
TTLInputs == {None, <<-1>>, <<0>>, <<MaxTTL>>, <<MaxTTL + 1>>}
EncTTLInputs == {None, <<-1>>, <<0>>}

(***************************************************************************)
(* json.dumps / json.loads on objects: the text is the sequence of the     *)
(* object's members.  The same encoding carries the "data" member of a     *)
(* request (requests.post(json=...)) and of a response (response.json()).  *)
(***************************************************************************)
KeyOrder ==
  <<"api_key", "encrypted", "json", "last_updated", "payload", "theme", "user">>

JsonDumps(d) ==
  LET ks == SelectSeq(KeyOrder, LAMBDA k : k \in DOMAIN d)
  IN  [i \in 1..Len(ks) |-> <<ks[i], d[ks[i]]>>]

JsonLoads(s) ==
  [k \in {s[i][1] : i \in 1..Len(s)} |->
     s[CHOOSE i \in 1..Len(s) :
         s[i][1] = k /\ \A j \in 1..Len(s) : s[j][1] = k => j <= i][2]]

(* Python truth value of dict.get(key): a missing key gives None. *)
Truthy(v) == v \notin {Bool(FALSE), Str("")}
GetTruthy(d, k) == k \in DOMAIN d /\ Truthy(d[k])

VARIABLES
  entries,   \* the store: token -> entry or NoEntry
  now,       \* the store's clock
  issued,    \* tokens handed out by /api/generate
  last,      \* the most recent client call and how it ended
  stored,    \* per token: the latest store call that succeeded
  prev,      \* per token: the data of the successful store before the latest
  storedTo,  \* tokens some store succeeded on
  script,    \* the script that runs: "basic", "encrypted" or "none"
  pc,        \* where its main() is
  main_token,\* main's variable `token'
  reqlog,    \* the requests main has made, with the status of each answer
  caught,    \* the exception that ended main, and the response it carries
  printed    \* what the script has printed

mainVars == <<script, pc, main_token, reqlog, caught, printed>>

vars == <<entries, now, issued, last, stored, prev, storedTo, mainVars>>

(***************************************************************************)
(* The store (specification sections 3, 4, 6, 7).  It keeps the payload as *)
(* it came, serialized, and hands it back so.  Expiry is lazy: an entry    *)
(* past its expires_at is treated as absent on every read.  A request may  *)
(* also be answered Busy or Internal (`fault').                            *)
(***************************************************************************)
NoEntry == [absent |-> TRUE]

ValidToken(t) == t \in Tokens

Live(es, t) ==
  IF es[t] = NoEntry THEN FALSE
  ELSE IF es[t].expires_at = None THEN TRUE
  ELSE now < es[t].expires_at[1]

OkResp(body) == [status |-> 200, body |-> body]
ErrResp(code, kind) == [status |-> code, body |-> [error |-> kind]]
FaultResp(fault) ==
  IF fault = "Busy" THEN ErrResp(503, "Busy") ELSE ErrResp(500, "Internal")

Faults == {"none", "Busy", "Internal"}

SizeBytes(text) == Len(text)

(* GET /api/generate: t is the sampled token. *)
HandleGenerate(t, fault) ==
  IF fault # "none" THEN FaultResp(fault)
  ELSE IF \A u \in Tokens : Live(entries, u) THEN ErrResp(503, "ExhaustedError")
  ELSE OkResp([token |-> t])

(* POST /api/store: the response and the entries after it. *)
HandleStore(req, fault) ==
  IF fault # "none"
    THEN [resp |-> FaultResp(fault), entries |-> entries]
  ELSE IF ~ValidToken(req.token)
    THEN [resp |-> ErrResp(400, "InvalidToken"), entries |-> entries]
  ELSE IF (IF req.ttl = None THEN FALSE
           ELSE req.ttl[1] <= 0 \/ req.ttl[1] > MaxTTL)
    THEN [resp |-> ErrResp(400, "InvalidTTL"), entries |-> entries]
  ELSE [resp |-> OkResp([success |-> TRUE, size |-> SizeBytes(req.data)]),
        entries |-> [entries EXCEPT ![req.token] =
                       [payload |-> req.data,
                        expires_at |-> IF req.ttl = None THEN None
                                       ELSE <<now + req.ttl[1]>>]]]

(* GET /api/retrieve?token= *)
HandleRetrieve(t, fault) ==
  IF fault # "none" THEN FaultResp(fault)
  ELSE IF ~ValidToken(t) THEN ErrResp(400, "InvalidToken")
  ELSE IF ~Live(entries, t) THEN ErrResp(404, "NotFound")
  ELSE OkResp([data |-> entries[t].payload])

(***************************************************************************)
(* requests: raise_for_status, and the truth value of a Response.          *)
(***************************************************************************)
NoValue == [novalue |-> TRUE]

(* response.raise_for_status() raises HTTPError for 4xx and 5xx. *)
RaiseForStatus(resp) == resp.status >= 400 /\ resp.status < 600

(* bool(response) is response.ok: no HTTPError would be raised for it. *)
ResponseBool(resp) == ~RaiseForStatus(resp)

(* requests.post(url, json=payload): the body that goes over the wire. *)
RequestJson(payload) ==
  [token |-> payload.token, data |-> JsonDumps(payload.data),
   ttl |-> payload.ttl]

(* response.json(): the body parsed. *)
ResponseJson(resp) ==
  IF "data" \in DOMAIN resp.body
    THEN [data |-> JsonLoads(resp.body.data)]
    ELSE resp.body

(* What a call made of the response: the exception it raised or "none",    *)
(* the value it returned, whether it read the body (response.json()) and   *)
(* whether it called cipher.decrypt.                                       *)
Outcome(exc, ret, bodyRead, decrypted) ==
  [exc |-> exc, ret |-> ret, bodyRead |-> bodyRead, decrypted |-> decrypted]

Raised(exc, bodyRead, decrypted) == Outcome(exc, NoValue, bodyRead, decrypted)

(***************************************************************************)
(* KeyValueClient (basic_example.py).                                      *)
(***************************************************************************)
(* generate_token, lines 28-30 *)
GenerateResult(resp) ==
  IF RaiseForStatus(resp) THEN Raised("HTTPError", FALSE, FALSE)
  ELSE IF "token" \notin DOMAIN ResponseJson(resp)
    THEN Raised("KeyError", TRUE, FALSE)
  ELSE Outcome("none", [token |-> ResponseJson(resp).token], TRUE, FALSE)

(* A mutant of StorePayload: the data is sent as its JSON text             *)
(* (json.dumps(data) handed to json=).                                     *)
StorePayloadDoubleEncoded(token, data, ttl) ==
  [token |-> token,
   data |-> [json |-> JsonDumps(data)],
   ttl |-> IF ttl = None THEN None ELSE IF ttl[1] # 0 THEN ttl ELSE None]

(* store, lines 44-49: the JSON body of the request; `if ttl:'. *)
StorePayload(token, data, ttl) ==
  [token |-> token,
   data |-> data,
   ttl |-> IF ttl = None THEN None ELSE IF ttl[1] # 0 THEN ttl ELSE None]

(* A mutant of StoreResult: no raise_for_status before response.json(). *)
StoreResultNoRaise(resp) ==
  Outcome("none", [result |-> ResponseJson(resp)], TRUE, FALSE)

(* store, lines 56-57 *)
StoreResult(resp) ==
  IF RaiseForStatus(resp) THEN Raised("HTTPError", FALSE, FALSE)
  ELSE Outcome("none", [result |-> ResponseJson(resp)], TRUE, FALSE)

(* A mutant of RetrieveResult: returns the body, not its 'data' member. *)
RetrieveResultWholeBody(resp) ==
  IF RaiseForStatus(resp) THEN Raised("HTTPError", FALSE, FALSE)
  ELSE Outcome("none", [data |-> ResponseJson(resp)], TRUE, FALSE)

(* A mutant of RetrieveResult: no raise_for_status before response.json(). *)
RetrieveResultNoRaise(resp) ==
  IF "data" \notin DOMAIN ResponseJson(resp)
    THEN Raised("KeyError", TRUE, FALSE)
  ELSE Outcome("none", [data |-> ResponseJson(resp).data], TRUE, FALSE)

(* retrieve, lines 73-75 *)
RetrieveResult(resp) ==
  IF RaiseForStatus(resp) THEN Raised("HTTPError", FALSE, FALSE)
  ELSE IF "data" \notin DOMAIN ResponseJson(resp)
    THEN Raised("KeyError", TRUE, FALSE)
  ELSE Outcome("none", [data |-> ResponseJson(resp).data], TRUE, FALSE)

Call(client, op, token, password, data, ttl, sent, resp, outcome) ==
  [client |-> client, op |-> op, token |-> token, password |-> password,
   data |-> data, ttl |-> ttl, sent |-> sent, resp |-> resp,
   exc |-> outcome.exc, ret |-> outcome.ret,
   bodyRead |-> outcome.bodyRead, decrypted |-> outcome.decrypted]

NoCall ==
  Call("none", "none", "", "", NoValue, None, [get |-> "none"],
       OkResp([none |-> TRUE]), Raised("none", FALSE, FALSE))

(* The bookkeeping of a store call by `client' that the store answered resp. *)
NoteStore(client, password, t, data, req, resp, keepPrev) ==
  IF RaiseForStatus(resp)
    THEN UNCHANGED <<stored, prev, storedTo>>
    ELSE /\ stored' = [stored EXCEPT ![t] =
                         <<[client |-> client, password |-> password,
                            data |-> data, noTTL |-> req.ttl = None]>>]
         /\ prev' = IF keepPrev \/ stored[t] = <<>> THEN prev
                    ELSE [prev EXCEPT ![t] = <<stored[t][1].data>>]
         /\ storedTo' = storedTo \cup {t}

(* client.generate_token() *)
DoGenerate(client, fault) ==
  \E t \in Tokens :
    /\ IF \A u \in Tokens : Live(entries, u) THEN TRUE ELSE ~Live(entries, t)
    /\ LET resp == HandleGenerate(t, fault)
           outcome == GenerateResult(resp)
       IN  /\ last' = Call(client, "generate", "", "", NoValue, None,
                           [get |-> "generate"], resp, outcome)
           /\ issued' = IF outcome.exc = "none" THEN issued \cup {t} ELSE issued
    /\ UNCHANGED <<entries, now, stored, prev, storedTo>>

(* KeyValueClient.store(t, d, ttl) *)
DoStore(t, d, ttl, fault, keepPrev) ==
  LET req == StorePayload(t, d, ttl)
      out == HandleStore(RequestJson(req), fault)
  IN  /\ entries' = out.entries
      /\ last' = Call("plain", "store", t, "", d, ttl, req, out.resp,
                      StoreResult(out.resp))
      /\ NoteStore("plain", "", t, d, req, out.resp, keepPrev)
      /\ UNCHANGED <<now, issued>>

(* KeyValueClient.retrieve(t) *)
DoRetrieve(t, fault) ==
  LET resp == HandleRetrieve(t, fault)
  IN  /\ last' = Call("plain", "retrieve", t, "", NoValue, None,
                      [token |-> t], resp, RetrieveResult(resp))
      /\ UNCHANGED <<entries, now, issued, stored, prev, storedTo>>

GenerateToken == DoGenerate("plain", "none") /\ UNCHANGED mainVars

Store ==
  \E t \in TokenInputs, d \in BasicDocs, ttl \in TTLInputs :
    /\ t = BadToken => (d = DocA /\ ttl = None)
    /\ DoStore(t, d, ttl, "none", FALSE)
    /\ UNCHANGED mainVars

Retrieve == (\E t \in TokenInputs : DoRetrieve(t, "none")) /\ UNCHANGED mainVars

Tick ==
  /\ now < MaxTime
  /\ now' = now + 1
  /\ UNCHANGED <<entries, issued, last, stored, prev, storedTo, mainVars>>

NoException == [exc |-> "none", resp |-> OkResp([none |-> TRUE])]

InitStore ==
  /\ entries = [t \in Tokens |-> NoEntry]
  /\ now = 0
  /\ issued = {}
  /\ last = NoCall
  /\ stored = [t \in Tokens |-> <<>>]
  /\ prev = [t \in Tokens |-> <<>>]
  /\ storedTo = {}
  /\ main_token = ""
  /\ reqlog = <<>>
  /\ caught = NoException
  /\ printed = {}

Init == InitStore /\ script = "none" /\ pc = "idle"

Next == GenerateToken \/ Store \/ Retrieve \/ Tick

Spec == Init /\ [][Next]_vars

(***************************************************************************)
(* EncryptedKeyValueClient (encrypted_example.py).                         *)
(***************************************************************************)
(* A mutant of CreateCipher: the key is derived from the salt alone. *)
CreateCipherIgnoresPassword(password) == [pbkdf2 |-> "keyvalue-store-salt"]

(* _create_cipher, lines 38-51: the Fernet key derived from the password   *)
(* with PBKDF2-SHA256 and the fixed salt; distinct passwords give distinct *)
(* keys.                                                                   *)
CreateCipher(password) == [pbkdf2 |-> password]

(* Fernet.encrypt: an authenticated token under the key, with a fresh IV. *)
FernetEncrypt(cipher, iv, msg) == [key |-> cipher, iv |-> iv, msg |-> msg]

(* Fernet.decrypt: the message, if the token verifies under the key. *)
FernetVerifies(cipher, tok) == tok.key = cipher

(* base64.b64encode / b64decode: a string that is no base64 does not decode. *)
B64Encode(bytes) == B64(bytes)
IsB64(v) == DOMAIN v = {"b64"}

(* A mutant of EncryptData: the JSON text is base64-encoded, not encrypted. *)
EncryptDataNotEncrypted(cipher, iv, data) ==
  [encrypted |-> Bool(TRUE),
   payload |-> B64Encode([msg |-> JsonDumps(data)])]

(* _encrypt_data, lines 60-67 *)
EncryptData(cipher, iv, data) ==
  [encrypted |-> Bool(TRUE),
   payload |-> B64Encode(FernetEncrypt(cipher, iv, JsonDumps(data)))]

(* A mutant of DecryptData: returns the decrypted text without json.loads. *)
DecryptDataNoLoads(cipher, encrypted_data) ==
  IF ~GetTruthy(encrypted_data, "encrypted")
    THEN Raised("ValueError", TRUE, FALSE)
  ELSE IF "payload" \notin DOMAIN encrypted_data
    THEN Raised("KeyError", TRUE, FALSE)
  ELSE IF ~IsB64(encrypted_data.payload)
    THEN Raised("binascii.Error", TRUE, FALSE)
  ELSE IF ~FernetVerifies(cipher, encrypted_data.payload.b64)
    THEN Raised("InvalidToken", TRUE, TRUE)
  ELSE Outcome("none", [data |-> [text |-> encrypted_data.payload.b64.msg]],
               TRUE, TRUE)

(* A mutant of DecryptData: tests that the key "encrypted" is present, not *)
(* that its value is true.                                                 *)
DecryptDataKeyPresence(cipher, encrypted_data) ==
  IF "encrypted" \notin DOMAIN encrypted_data
    THEN Raised("ValueError", TRUE, FALSE)
  ELSE IF "payload" \notin DOMAIN encrypted_data
    THEN Raised("KeyError", TRUE, FALSE)
  ELSE IF ~IsB64(encrypted_data.payload)
    THEN Raised("binascii.Error", TRUE, FALSE)
  ELSE IF ~FernetVerifies(cipher, encrypted_data.payload.b64)
    THEN Raised("InvalidToken", TRUE, TRUE)
  ELSE Outcome("none", [data |-> JsonLoads(encrypted_data.payload.b64.msg)],
               TRUE, TRUE)

(* _decrypt_data, lines 69-76 *)
DecryptData(cipher, encrypted_data) ==
  IF ~GetTruthy(encrypted_data, "encrypted")
    THEN Raised("ValueError", TRUE, FALSE)
  ELSE IF "payload" \notin DOMAIN encrypted_data
    THEN Raised("KeyError", TRUE, FALSE)
  ELSE IF ~IsB64(encrypted_data.payload)
    THEN Raised("binascii.Error", TRUE, FALSE)
  ELSE IF ~FernetVerifies(cipher, encrypted_data.payload.b64)
    THEN Raised("InvalidToken", TRUE, TRUE)
  ELSE Outcome("none", [data |-> JsonLoads(encrypted_data.payload.b64.msg)],
               TRUE, TRUE)

(* retrieve, lines 121-124 *)
EncRetrieveResult(cipher, resp) ==
  IF RaiseForStatus(resp) THEN Raised("HTTPError", FALSE, FALSE)
  ELSE IF "data" \notin DOMAIN ResponseJson(resp)
    THEN Raised("KeyError", TRUE, FALSE)
  ELSE DecryptData(cipher, ResponseJson(resp).data)

(* EncryptedKeyValueClient(password).store(t, d, ttl) *)
DoEncStore(password, iv, t, d, ttl, fault) ==
  LET encrypted_data == EncryptData(CreateCipher(password), iv, d)
      req == StorePayload(t, encrypted_data, ttl)
      out == HandleStore(RequestJson(req), fault)
  IN  /\ entries' = out.entries
      /\ last' = Call("enc", "store", t, password, d, ttl, req, out.resp,
                      StoreResult(out.resp))
      /\ NoteStore("enc", password, t, d, req, out.resp, TRUE)
      /\ UNCHANGED <<now, issued>>

(* EncryptedKeyValueClient(password).retrieve(t) *)
DoEncRetrieve(password, t, fault) ==
  LET resp == HandleRetrieve(t, fault)
  IN  /\ last' = Call("enc", "retrieve", t, password, NoValue, None,
                      [token |-> t], resp,
                      EncRetrieveResult(CreateCipher(password), resp))
      /\ UNCHANGED <<entries, now, issued, stored, prev, storedTo>>

(* main, lines 172-176: requests.get and response.json()['data'], with no  *)
(* raise_for_status.                                                       *)
RawRetrieveResult(resp) ==
  IF "data" \notin DOMAIN ResponseJson(resp)
    THEN Raised("KeyError", TRUE, FALSE)
  ELSE Outcome("none", [data |-> ResponseJson(resp).data], TRUE, FALSE)

DoRawRetrieve(t, fault) ==
  LET resp == HandleRetrieve(t, fault)
  IN  /\ last' = Call("raw", "retrieve", t, "", NoValue, None,
                      [token |-> t], resp, RawRetrieveResult(resp))
      /\ UNCHANGED <<entries, now, issued, stored, prev, storedTo>>

EncStore ==
  \E w \in Passwords, iv \in IVs, t \in Tokens, d \in SecretDocs,
     ttl \in EncTTLInputs :
    DoEncStore(w, iv, t, d, ttl, "none") /\ UNCHANGED mainVars

EncRetrieve ==
  /\ \E w \in Passwords, t \in Tokens : DoEncRetrieve(w, t, "none")
  /\ UNCHANGED mainVars

RawRetrieve == (\E t \in Tokens : DoRawRetrieve(t, "none")) /\ UNCHANGED mainVars

(* Another user of the store puts a value there through the plain client. *)
ForeignStore ==
  /\ \E t \in Tokens, d \in ForeignDocs : DoStore(t, d, None, "none", TRUE)
  /\ UNCHANGED mainVars

NextEnc ==
  EncStore \/ EncRetrieve \/ RawRetrieve \/ ForeignStore

SpecEnc == Init /\ [][NextEnc]_vars

(***************************************************************************)
(* The scripts: main() and the handler around it.  Each step is one        *)
(* request of main together with what main does with the answer, up to its *)
(* next request; an exception runs the handler and ends the script.  The   *)
(* store may answer any request Busy or Internal, and another user of the  *)
(* store may write to it between two requests of main.                     *)
(***************************************************************************)
(* `except requests.exceptions.HTTPError as e' / `except Exception as e',  *)
(* basic_example.py lines 129-134, encrypted_example.py lines 195-202.     *)
HandlerPrints(exc, resp) ==
  IF exc = "HTTPError"
    THEN {"HTTP Error"} \cup (IF ResponseBool(resp) THEN {"Response"} ELSE {})
    ELSE {"Error"}

Logged(op) ==
  reqlog' = Append(reqlog, [op |-> op, status |-> last'.resp.status])

(* The exception exc leaves main: the handler prints, the script ends. *)
Abort(exc) ==
  /\ pc' = "done"
  /\ caught' = [exc |-> exc,
                resp |-> IF exc = "HTTPError" THEN last'.resp
                         ELSE OkResp([none |-> TRUE])]
  /\ printed' = printed \cup HandlerPrints(exc, last'.resp)

Goto(to, line) ==
  /\ pc' = to
  /\ printed' = printed \cup line
  /\ UNCHANGED caught

(* basic_example.py line 84, encrypted_example.py line 137 *)
MainGenerate ==
  /\ pc = "generate"
  /\ \E f \in Faults :
       DoGenerate(IF script = "basic" THEN "plain" ELSE "enc", f)
  /\ Logged("generate")
  /\ IF last'.exc = "none"
       THEN main_token' = last'.ret.token /\ Goto("store", {"Generated token"})
       ELSE UNCHANGED main_token /\ Abort(last'.exc)
  /\ UNCHANGED script

(* basic_example.py line 99, encrypted_example.py line 157 *)
MainStore ==
  /\ pc = "store"
  /\ \E f \in Faults :
       IF script = "basic"
         THEN DoStore(main_token, MyData, None, f, TRUE)
         ELSE \E iv \in IVs :
                DoEncStore(MainPassword, iv, main_token, SensitiveData, None, f)
  /\ Logged("store")
  /\ IF last'.exc = "none"
       THEN Goto("retrieve", {"Store result"})
       ELSE Abort(last'.exc)
  /\ UNCHANGED <<script, main_token>>

(* basic_example.py lines 104-109, encrypted_example.py lines 163-168 *)
MainRetrieve ==
  /\ pc = "retrieve"
  /\ \E f \in Faults :
       IF script = "basic"
         THEN DoRetrieve(main_token, f)
         ELSE DoEncRetrieve(MainPassword, main_token, f)
  /\ Logged("retrieve")
  /\ IF last'.exc # "none" THEN Abort(last'.exc)
     ELSE IF last'.ret.data # (IF script = "basic" THEN MyData ELSE SensitiveData)
       THEN Abort("AssertionError")
     ELSE Goto(IF script = "basic" THEN "update" ELSE "raw",
               {"Data successfully stored and retrieved"})
  /\ UNCHANGED <<script, main_token>>

(* basic_example.py lines 113-117 *)
MainUpdate ==
  /\ pc = "update"
  /\ \E f \in Faults : DoStore(main_token, MyDataUpdated, None, f, TRUE)
  /\ Logged("store")
  /\ IF last'.exc = "none"
       THEN Goto("reretrieve", {"Update result"})
       ELSE Abort(last'.exc)
  /\ UNCHANGED <<script, main_token>>

(* basic_example.py lines 120-123 *)
MainReretrieve ==
  /\ pc = "reretrieve"
  /\ \E f \in Faults : DoRetrieve(main_token, f)
  /\ Logged("retrieve")
  /\ IF last'.exc # "none" THEN Abort(last'.exc)
     ELSE IF last'.ret.data # MyDataUpdated THEN Abort("AssertionError")
     ELSE Goto("done", {"Data successfully updated"})
  /\ UNCHANGED <<script, main_token>>

(* encrypted_example.py lines 172-180: server_data['encrypted'] and        *)
(* server_data['payload'] are read for printing.                           *)
MainRaw ==
  /\ pc = "raw"
  /\ \E f \in Faults : DoRawRetrieve(main_token, f)
  /\ Logged("retrieve")
  /\ IF last'.exc # "none" THEN Abort(last'.exc)
     ELSE IF ~({"encrypted", "payload"} \subseteq DOMAIN last'.ret.data)
       THEN Abort("KeyError")
     ELSE Goto("wrong", {"Encrypted payload on server"})
  /\ UNCHANGED <<script, main_token>>

(* encrypted_example.py lines 184-189: the inner try catches every         *)
(* Exception of the wrong client's retrieve.                               *)
MainWrong ==
  /\ pc = "wrong"
  /\ \E f \in Faults : DoEncRetrieve(WrongPassword, main_token, f)
  /\ Logged("retrieve")
  /\ Goto("done", IF last'.exc = "none" THEN {"Should have failed"}
                  ELSE {"Decryption failed as expected"})
  /\ UNCHANGED <<script, main_token>>

(* Another user of the store writes through the plain client. *)
Interfere ==
  /\ pc # "done"
  /\ \E t \in Tokens : DoStore(t, DocA, None, "none", TRUE)
  /\ UNCHANGED mainVars

InitMain == InitStore /\ script \in {"basic", "encrypted"} /\ pc = "generate"

NextMain ==
  \/ MainGenerate \/ MainStore \/ MainRetrieve \/ MainUpdate
  \/ MainReretrieve \/ MainRaw \/ MainWrong \/ Interfere

SpecMain == InitMain /\ [][NextMain]_vars

(***************************************************************************)
(* The claims.                                                             *)
(***************************************************************************)
PlainRetrieveOf(t) ==
  last.client = "plain" /\ last.op = "retrieve" /\ last.token = t

EncRetrieveOf(t) ==
  last.client = "enc" /\ last.op = "retrieve" /\ last.token = t

(* The latest successful store to t was made without a ttl by `client'. *)
StoredBy(client, t) ==
  IF stored[t] = <<>> THEN FALSE
  ELSE stored[t][1].client = client /\ stored[t][1].noTTL

(* C1: read-your-writes.  When store(T, P) has succeeded and no other      *)
(* store to T has succeeded since, retrieve(T) returns a value equal to P. *)
(* store(T, P) is the call without a ttl, as the script makes it; after a  *)
(* store with a ttl the same holds for as long as the entry has not        *)
(* expired.                                                                *)
C1_ReadYourWrites ==
  \A t \in Tokens :
    (/\ PlainRetrieveOf(t)
     /\ StoredBy("plain", t) \/ (stored[t] # <<>> /\ Live(entries, t)))
      => (last.exc = "none" /\ last.ret = [data |-> stored[t][1].data])

(* A retrieve that followed a store to its token, a store to the other     *)
(* token and a tick of the clock, and returned the data.                   *)
C1_Witness ==
  /\ last.client = "plain" /\ last.op = "retrieve" /\ last.exc = "none"
  /\ last.token \in Tokens
  /\ StoredBy("plain", last.token)
  /\ last.ret = [data |-> DocB]
  /\ Cardinality(storedTo) > 1
  /\ now > 0

(* C2: full replace.  After store(T, P1) and then store(T, P2) have both   *)
(* succeeded, retrieve(T) returns exactly P2, and no key of P1 that is     *)
(* absent from P2 is in what it returns.                                   *)
C2_FullReplace ==
  \A t \in Tokens :
    (PlainRetrieveOf(t) /\ StoredBy("plain", t) /\ prev[t] # <<>>)
      => /\ last.exc = "none"
         /\ last.ret = [data |-> stored[t][1].data]
         /\ \A k \in DOMAIN prev[t][1] \ DOMAIN stored[t][1].data :
              k \notin DOMAIN last.ret.data

(* DocB, then DocA, then a retrieve: "theme" is gone. *)
C2_Witness ==
  /\ last.client = "plain" /\ last.op = "retrieve" /\ last.exc = "none"
  /\ last.token \in Tokens
  /\ StoredBy("plain", last.token)
  /\ prev[last.token] = <<DocB>>
  /\ stored[last.token][1].data = DocA
  /\ last.ret = [data |-> DocA]

(* C3: a store with ttl = 0 or a negative ttl fails with InvalidTTL: it    *)
(* raises, and nothing is stored under the token.                          *)
C3_NonPositiveTTLFails ==
  (/\ last.op = "store"
   /\ last.token \in Tokens
   /\ IF last.ttl = None THEN FALSE ELSE last.ttl[1] <= 0)
    => /\ last.exc = "HTTPError"
       /\ last.resp.body = [error |-> "InvalidTTL"]

(* C7: generate_token creates no entry, and retrieve of a token that was   *)
(* generated and never stored to fails with NotFound: the client raises    *)
(* and returns no data.                                                    *)
C7_GeneratedNotStored ==
  /\ \A t \in issued \ storedTo : entries[t] = NoEntry
  /\ (last.op = "retrieve" /\ last.token \in issued \ storedTo)
       => /\ last.resp = ErrResp(404, "NotFound")
          /\ last.exc = "HTTPError"
          /\ last.ret = NoValue

(* A retrieve of a generated, never stored token, after a store to the     *)
(* other token.                                                            *)
C7_Witness ==
  /\ last.op = "retrieve"
  /\ last.token \in issued \ storedTo
  /\ last.exc = "HTTPError"
  /\ storedTo # {}

IsEnvelope(v) ==
  /\ DOMAIN v = {"encrypted", "payload"}
  /\ v.encrypted = Bool(TRUE)
  /\ IsB64(v.payload)
  /\ DOMAIN v.payload.b64 = {"key", "iv", "msg"}

C8_HandlerPrintsResponse ==
  (pc = "done" /\ caught.exc = "HTTPError")
    => {"HTTP Error", "Response"} \subseteq printed

(* C9: errors bubble up and stop the sequence.  A call of generate_token,  *)
(* store or retrieve that gets a non-2xx answer raises HTTPError before it *)
(* reads the body and returns no value, and main of basic_example.py makes *)
(* no request after one that failed: the exception has ended it.           *)
C9_ErrorsStopMain ==
  /\ (last.client = "plain" /\ last.resp.status \notin 200..299)
       => (last.exc = "HTTPError" /\ last.ret = NoValue /\ ~last.bodyRead)
  /\ script = "basic" =>
       \A i \in 1..Len(reqlog) :
         reqlog[i].status \notin 200..299
           => (i = Len(reqlog) /\ pc = "done" /\ caught.exc = "HTTPError")

(* basic_example.py: the store answered main's store with an error; main   *)
(* made two requests and stopped.                                          *)
C9_Witness ==
  /\ script = "basic"
  /\ pc = "done"
  /\ Len(reqlog) = 2
  /\ reqlog[2] = [op |-> "store", status |-> 503]
  /\ caught.exc = "HTTPError"
  /\ last.ret = NoValue
====
